---- MODULE Spec2Model ----
(***************************************************************************)
(* A model of the line dispatch of game-server-base (gsb).                 *)
(*                                                                         *)
(* Two dispatchers exist in the sources: Server.handle_line                *)
(* (gsb/server.py), which knows about connection.intercept and matches     *)
(* the regular expressions of Server.commands, and Parser.handle_line      *)
(* (gsb/parser.py), which looks commands up by name.  An application      *)
(* wires a connection to one of them.  One action is one complete call of  *)
(* a handler: the code is single threaded and runs every line to           *)
(* completion before the next one is delivered.                            *)
(*                                                                         *)
(* Text is a sequence of tokens.  Lines typed by the user are sequences of *)
(* one-character tokens; fixed messages of the program are one token.      *)
(***************************************************************************)
EXTENDS Integers, Sequences, FiniteSets, TLC

VARIABLES
    app,             \* the application: which dispatcher it wires, what it registers
    intercept,       \* connection.intercept
    serverCommands,  \* Server.commands (a list)
    commands,        \* Parser.commands (a dict: name -> list of Command)
    registered,      \* number of Command objects created by Parser.command
    line,            \* the line handed to the last call of handle_line
    before,          \* connection.intercept when that call started
    operation,       \* the last operation: "handle_line", "command", "notify"
    allow_huh,       \* the allow_huh argument of that call of Parser.handle_line
    events,          \* what that call did, in order
    outcome,         \* how that call ended: "returned" or the exception it raised
    given,           \* the arguments of the last call of Server.notify or broadcast
    connections,     \* Server.connections (a list of protocols)
    sessions,        \* the protocols: each one's intercept and _parser
    menu             \* the Menu the application is building

vars == <<app, intercept, serverCommands, commands, registered,
          line, before, operation, allow_huh, events, outcome,
          given, connections, sessions, menu>>

----------------------------------------------------------------------------
(* Bounds of the model *)

MaxCmds == 2
MaxServerCmds == 2
MaxSplitLen == 4
MaxBuffer == 4
\* the items of one Menu
MaxItems == 3

MaxConns == 3

----------------------------------------------------------------------------
(* Python values that may be a string, a callable or None *)

PyNone == [type |-> "NoneType", value |-> <<>>]
PyStr(s) == [type |-> "str", value |-> s]
PyFunc == [type |-> "function", value |-> <<>>]

\* bool(v)
Truthy(v) ==
    CASE v.type = "NoneType" -> FALSE
      [] v.type = "str" -> v.value # <<>>
      [] OTHER -> TRUE

----------------------------------------------------------------------------
(* Strings *)

Digits == {"0", "1", "2", "3", "4", "5", "6", "7", "8", "9"}

DigitValue(c) ==
    CASE c = "0" -> 0 [] c = "1" -> 1 [] c = "2" -> 2 [] c = "3" -> 3
      [] c = "4" -> 4 [] c = "5" -> 5 [] c = "6" -> 6 [] c = "7" -> 7
      [] c = "8" -> 8 [] OTHER -> 9

\* str.lower() on one character of the alphabet the lines are drawn from
LowerChar(c) ==
    CASE c = "A" -> "a" [] c = "B" -> "b" [] c = "X" -> "x"
      [] c = "Y" -> "y" [] c = "E" -> "e" [] c = "N" -> "n"
      [] c = "F" -> "f" [] c = "S" -> "s" [] c = "T" -> "t"
      [] OTHER -> c

Lower(t) == [i \in 1..Len(t) |-> LowerChar(t[i])]

StartsWith(t, p) == Len(p) <= Len(t) /\ SubSeq(t, 1, Len(p)) = p

RECURSIVE LStrip(_, _)
LStrip(t, c) == IF t # <<>> /\ Head(t) = c THEN LStrip(Tail(t), c) ELSE t

RECURSIVE RStrip(_, _)
RStrip(t, c) ==
    IF t # <<>> /\ t[Len(t)] = c THEN RStrip(SubSeq(t, 1, Len(t) - 1), c) ELSE t

\* str.strip(c)
Strip(t, c) == RStrip(LStrip(t, c), c)

RECURSIVE Join(_, _)
Join(parts, sep) ==
    IF parts = <<>> THEN <<>>
    ELSE IF Len(parts) = 1 THEN parts[1]
    ELSE parts[1] \o sep \o Join(Tail(parts), sep)

\* position of the first occurrence of the one-token separator sep in t, or 0
RECURSIVE Find(_, _, _)
Find(t, sep, i) ==
    IF i > Len(t) THEN 0 ELSE IF t[i] = sep THEN i ELSE Find(t, sep, i + 1)

\* int(text): surrounding blanks are ignored, one sign is allowed
IntBody(t) ==
    LET s == Strip(t, " ")
    IN IF s # <<>> /\ Head(s) \in {"-", "+"} THEN Tail(s) ELSE s

IsInt(t) ==
    LET b == IntBody(t) IN b # <<>> /\ \A i \in 1..Len(b) : b[i] \in Digits

RECURSIVE DigitsValue(_)
DigitsValue(b) ==
    IF b = <<>> THEN 0
    ELSE 10 * DigitsValue(SubSeq(b, 1, Len(b) - 1)) + DigitValue(b[Len(b)])

IntOf(t) ==
    LET s == Strip(t, " ")
    IN IF Head(s) = "-" THEN 0 - DigitsValue(IntBody(t)) ELSE DigitsValue(IntBody(t))

\* str(n) for the small numbers a menu prints
RECURSIVE StrOfNat(_)
StrOfNat(n) ==
    LET d == CHOOSE c \in Digits : DigitValue(c) = n % 10
    IN IF n < 10 THEN <<d>> ELSE StrOfNat(n \div 10) \o <<d>>

----------------------------------------------------------------------------
(* Fixed texts of the program *)

abort_command == <<"@", "a", "b", "o", "r", "t">>
AbortedMsg == <<"Aborted.">>
HuhMsg == <<"I don't understand that.">>
ErrorMsg == <<"There was an error with your command.">>
InvalidSelectionMsg == <<"Invalid selection.">>
MultipleMatchesMsg == <<"That matched multiple items:">>
OkMsg == <<"OK.">>
done_marker == <<".">>

\* the lines a user types at a Server and at a Parser
ServerLines ==
    { <<>>, <<"a">>, <<"a", " ", "x">>, <<"b">>, abort_command, <<"y">>,
      <<"1">>, <<"0">>, <<"$">>, done_marker }

ParserLines ==
    { <<>>, <<"a">>, <<"a", " ", "x">>, <<"b">>, <<"'", "x">>, <<"\"", "x">> }

----------------------------------------------------------------------------
(* One call of a handler.  A run threads the connection's intercept, the   *)
(* events so far, the pending exception ("" when none), the number of      *)
(* application callbacks invoked so far and whether caller.exception is    *)
(* set.                                                                    *)

NoneIntercept == [kind |-> "None"]

NewRun(i) ==
    [intercept |-> i, events |-> <<>>, exc |-> "", calls |-> 0,
     exception |-> FALSE, ret |-> 0]

Log(st, op, n, text, res) ==
    [st EXCEPT !.events = Append(@, [op |-> op, n |-> n, text |-> text,
                                      res |-> res, exception |-> st.exception])]

Raise(st, e) == [st EXCEPT !.exc = e]

\* statement sequencing: what follows a raise is not executed
AndThen(st, F(_)) == IF st.exc = "" THEN F(st) ELSE st

\* Protocol.sendLine, the write request to the transport
sendLine(st, text) == Log(st, "sendLine", 0, text, "")

\* Server.notify with something that is not an Intercept: the text is
\* formatted and encoded; only a str has encode()
NotifyText(st, v) ==
    IF v.type = "str" THEN sendLine(st, v.value) ELSE Raise(st, "AttributeError")

\* the interceptor application callbacks attach: Intercept() with its defaults
Child ==
    [kind |-> "Intercept", id |-> 0, persistent |-> FALSE, no_abort |-> PyNone,
     aborted |-> AbortedMsg]

\* Server.notify with an Intercept instance whose explain is Intercept.explain
NotifyChild(st) == Log([st EXCEPT !.intercept = Child], "explain", Child.id, <<>>, "")

\* A call into application code (a command function or a callback of an
\* interceptor).  oracle[k] is what the k-th such call of this line does:
\* return ("ok"), send the connection an interceptor and return ("attach"),
\* raise an exception ("fail"), or call caller.dont_stop() ("dont_stop").
CallApp(st, name, n, text, oracle) ==
    LET k == st.calls + 1
        res == IF k \in DOMAIN oracle THEN oracle[k] ELSE "ok"
        s1 == Log([st EXCEPT !.calls = k], name, n, text, res)
    IN CASE res = "attach" -> NotifyChild(s1)
         [] res = "fail" -> Raise(s1, "Exception")
         [] res = "dont_stop" -> Raise(s1, "DontStopException")
         [] OTHER -> s1

----------------------------------------------------------------------------
(* Interceptors (gsb/intercept.py) *)

\* MenuItem.__str__
ItemStr(item) == <<"[">> \o StrOfNat(item.index) \o <<"]", " ">> \o item.text

\* Menu.send_items; labels are taken in list order, a label's "after" is the
\* index of the item it follows, 0 for None
RECURSIVE SendItemsLoop(_, _, _, _)
SendItemsLoop(st, labels, items, k) ==
    IF k > Len(items) \/ st.exc # "" THEN st
    ELSE LET s1 == NotifyText(st, PyStr(ItemStr(items[k])))
         IN IF labels # <<>> /\ Head(labels).after = items[k].index
            THEN SendItemsLoop(AndThen(s1, LAMBDA s : NotifyText(s, PyStr(Head(labels).text))),
                               Tail(labels), items, k + 1)
            ELSE SendItemsLoop(s1, labels, items, k + 1)

send_items(st, self, items) ==
    IF self.labels # <<>> /\ Head(self.labels).after = 0
    THEN SendItemsLoop(NotifyText(st, PyStr(Head(self.labels).text)),
                       Tail(self.labels), items, 1)
    ELSE SendItemsLoop(st, self.labels, items, 1)

\* the buffer as it is stored
get_buffer_raw(self) == self.buffer

\* Reader.get_buffer
get_buffer(self) == Strip(self.buffer, "\n")

\* Reader.send
send(st, thing, name, text, oracle) ==
    IF thing.type = "function" THEN CallApp(st, name, 0, text, oracle)
    ELSE NotifyText(st, thing)

ReaderPromptText(self) ==
    (IF self.persistent
     THEN <<"Enter lines of text. Type a full stop (.) on a blank line to finish">>
     ELSE <<"Enter a line of text">>)
    \o (IF self.no_abort = PyNone THEN <<" or @abort to exit">> ELSE <<>>)
    \o <<".">>

\* Intercept.explain, Menu.explain, Reader.explain, YesOrNo.explain
explain(st, self, oracle) ==
    LET s0 == Log(st, "explain", self.id, <<>>, "")
    IN CASE self.kind = "Menu" ->
              LET s1 == NotifyText(s0, PyStr(self.title))
                  s2 == AndThen(s1, LAMBDA s : send_items(s, self, self.items))
              IN AndThen(s2, LAMBDA s : NotifyText(s, PyStr(self.prompt)))
         [] self.kind = "Reader" ->
              LET s1 == IF self.prompt = PyNone
                        THEN NotifyText(s0, PyStr(ReaderPromptText(self)))
                        ELSE send(s0, self.prompt, "prompt", get_buffer(self), oracle)
              IN IF self.before_line # PyNone
                 THEN AndThen(s1, LAMBDA s : send(s, self.before_line, "before_line",
                                                  get_buffer(self), oracle))
                 ELSE s1
         [] self.kind = "YesOrNo" ->
              AndThen(NotifyText(s0, PyStr(self.question)),
                      LAMBDA s : NotifyText(s, PyStr(self.prompt)))
         [] OTHER -> s0

\* a feed that re-attaches only when the connection has no interceptor
InterceptFeedIfFree(st, self) ==
    IF self.persistent /\ st.intercept = NoneIntercept
    THEN [st EXCEPT !.intercept = self] ELSE st

\* Intercept.feed
InterceptFeed(st, self) ==
    IF self.persistent THEN [st EXCEPT !.intercept = self] ELSE st

\* a hook that explains the menu again whether it is persistent or not
MenuNoMatchesExplains(st, self, oracle) ==
    AndThen(NotifyText(st, PyStr(InvalidSelectionMsg)),
            LAMBDA s : explain(s, self, oracle))

\* Menu._no_matches
MenuNoMatches(st, self, oracle) ==
    LET s1 == NotifyText(st, PyStr(InvalidSelectionMsg))
    IN IF self.persistent THEN AndThen(s1, LAMBDA s : explain(s, self, oracle)) ELSE s1

\* a hook that lists every item of the menu
MenuMultipleMatchesAll(st, self, matches) ==
    LET s1 == NotifyText(st, PyStr(MultipleMatchesMsg))
        s2 == AndThen(s1, LAMBDA s : send_items(s, self, self.items))
    IN AndThen(s2, LAMBDA s : NotifyText(s, PyStr(self.prompt)))

\* Menu._multiple_matches
MenuMultipleMatches(st, self, matches) ==
    LET s1 == NotifyText(st, PyStr(MultipleMatchesMsg))
        s2 == AndThen(s1, LAMBDA s : send_items(s, self, matches))
    IN AndThen(s2, LAMBDA s : NotifyText(s, PyStr(self.prompt)))

\* a prefix match that compares the item texts as they are written
RECURSIVE PrefixMatchesCaseSensitive(_, _)
PrefixMatchesCaseSensitive(items, text) ==
    IF items = <<>> THEN <<>>
    ELSE (IF StartsWith(Head(items).text, text) THEN <<Head(items)>> ELSE <<>>)
         \o PrefixMatchesCaseSensitive(Tail(items), text)

\* the items whose lower-cased text starts with text, in item order
RECURSIVE PrefixMatches(_, _)
PrefixMatches(items, text) ==
    IF items = <<>> THEN <<>>
    ELSE (IF StartsWith(Lower(Head(items).text), text) THEN <<Head(items)>> ELSE <<>>)
         \o PrefixMatches(Tail(items), text)

IndexTokens(items) == [i \in 1..Len(items) |-> StrOfNat(items[i].index)[1]]

\* a match that trims the text
MatchTextTrimmed(callerText) == Strip(Lower(callerText), " ")

\* the text Menu.match works on: caller.text.lower()
MatchText(callerText) == Lower(callerText)

\* numbers taken as list indices as they are
MenuIndexAsIs(num) == num

\* the list index Menu.match makes of the number typed
MenuIndex(num) == IF num > 0 THEN num - 1 ELSE num

\* Menu.match: the run after it and the position of the item returned (0: None)
MenuMatch(st, self, callerText, oracle) ==
    LET text == MatchText(callerText)
        n == Len(self.items)
        num0 == IF IsInt(text) THEN IntOf(text) ELSE 0
        num == MenuIndex(num0)
        found == IF text # <<>> THEN PrefixMatches(self.items, text) ELSE <<>>
    IN IF text = <<"$">>
       THEN (IF n = 0 THEN [st |-> Raise(st, "IndexError"), m |-> 0]
             ELSE [st |-> st, m |-> n])
       ELSE IF IsInt(text) /\ 0 - n <= num /\ num < n
       THEN [st |-> st, m |-> IF num >= 0 THEN num + 1 ELSE n + num + 1]
       ELSE IF found = <<>>
       THEN [st |-> IF self.no_matches = PyNone
                    THEN MenuNoMatches(Log(st, "no_matches", self.id, <<>>, "default"),
                                       self, oracle)
                    ELSE CallApp(st, "no_matches", self.id, <<>>, oracle),
             m |-> 0]
       ELSE IF Len(found) = 1
       THEN [st |-> st,
             m |-> CHOOSE p \in 1..n : self.items[p] = found[1]]
       ELSE [st |-> IF self.multiple_matches = PyNone
                    THEN MenuMultipleMatches(
                             Log(st, "multiple_matches", self.id, IndexTokens(found),
                                 "default"), self, found)
                    ELSE CallApp(st, "multiple_matches", self.id, IndexTokens(found),
                                 oracle),
             m |-> 0]

\* a feed that goes on to Intercept.feed after the item's function
MenuFeedLoops(st, self, callerText, oracle) ==
    LET r == MenuMatch(st, self, callerText, oracle)
    IN IF r.st.exc # "" THEN r.st
       ELSE IF r.m = 0 THEN InterceptFeed(r.st, self)
       ELSE AndThen(CallApp(r.st, "item", r.m, callerText, oracle),
                    LAMBDA s : InterceptFeed(s, self))

\* Menu.feed
MenuFeed(st, self, callerText, oracle) ==
    LET r == MenuMatch(st, self, callerText, oracle)
    IN IF r.st.exc # "" THEN r.st
       ELSE IF r.m = 0 THEN InterceptFeed(r.st, self)
       ELSE CallApp(r.st, "item", r.m, callerText, oracle)

\* a feed that takes every line for the last
ReaderFeedCompletes(st, self, callerText, oracle) ==
    LET s1 == IF self.after_line # PyNone
              THEN send(st, self.after_line, "after_line", callerText, oracle)
              ELSE st
        self1 == [self EXCEPT !.buffer = self.buffer \o <<"\n">> \o callerText]
    IN IF s1.exc # "" THEN s1
       ELSE CallApp(s1, "done", self.id, get_buffer(self1), oracle)

\* Reader.feed
ReaderFeed(st, self, callerText, oracle) ==
    LET s1 == IF self.after_line # PyNone
              THEN send(st, self.after_line, "after_line", callerText, oracle)
              ELSE st
        buffer == IF ~self.persistent \/ callerText # done_marker
                  THEN self.buffer \o <<"\n">> \o callerText
                  ELSE self.buffer
        self1 == [self EXCEPT !.buffer = buffer]
        text == get_buffer(self1)
    IN IF s1.exc # "" THEN s1
       ELSE IF ~self.persistent \/ callerText = done_marker
       THEN CallApp(s1, "done", self.id, text, oracle)
       ELSE LET s2 == IF self.before_line # PyNone
                      THEN send(s1, self.before_line, "before_line", text, oracle)
                      ELSE s1
            IN AndThen(s2, LAMBDA s : InterceptFeed(s, self1))

\* a feed that looks for a lower-case "y" only
YesOrNoFeedCaseSensitive(st, self, callerText, oracle) ==
    IF StartsWith(callerText, <<"y">>)
    THEN CallApp(st, "yes", self.id, callerText, oracle)
    ELSE IF self.no = "default"
    THEN NotifyText(Log(st, "no", self.id, callerText, "default"), PyStr(OkMsg))
    ELSE CallApp(st, "no", self.id, callerText, oracle)

\* YesOrNo.feed; the default of "no" notifies 'OK.'
YesOrNoFeed(st, self, callerText, oracle) ==
    IF StartsWith(Lower(callerText), <<"y">>)
    THEN CallApp(st, "yes", self.id, callerText, oracle)
    ELSE IF self.no = "default"
    THEN NotifyText(Log(st, "no", self.id, callerText, "default"), PyStr(OkMsg))
    ELSE CallApp(st, "no", self.id, callerText, oracle)

\* intercept.feed(caller), by the class of the interceptor
feed(st, self, callerText, oracle) ==
    LET s0 == Log(st, "feed", self.id, callerText, "")
    IN CASE self.kind = "Menu" -> MenuFeed(s0, self, callerText, oracle)
         [] self.kind = "Reader" -> ReaderFeed(s0, self, callerText, oracle)
         [] self.kind = "YesOrNo" -> YesOrNoFeed(s0, self, callerText, oracle)
         [] OTHER -> InterceptFeed(s0, self)

----------------------------------------------------------------------------
(* Server (gsb/server.py) *)

\* Server.on_command
on_command(callerText) == TRUE

\* search(cmd.regexp, line) for the expressions the example servers register
Search(regexp, ln) ==
    CASE regexp = "^a$" -> ln = <<"a">>
      [] regexp = "^[^$]+$" -> ln # <<>> /\ \A i \in 1..Len(ln) : ln[i] # "$"
      [] OTHER -> FALSE

\* a huh that notifies nobody
huh_silent(st) == Log(st, "huh", 0, <<>>, "")

\* Server.huh and Parser.huh
huh(st) == NotifyText(Log(st, "huh", 0, <<>>, ""), PyStr(HuhMsg))

\* Server.on_error and Parser.on_error
on_error(st) == NotifyText(Log(st, "on_error", 0, <<>>, ""), PyStr(ErrorMsg))

\* what Server.handle_line does with an exception of a command other than
\* DontStopException
ServerOnException(st) == on_error([st EXCEPT !.exc = "", !.exception = TRUE])

\* the loop of Server.handle_line over Server.match_commands, from command k
RECURSIVE ServerLoop(_, _, _, _, _)
ServerLoop(st, cmds, k, ln, oracle) ==
    IF k > Len(cmds) THEN huh(st)
    ELSE IF ~Search(cmds[k].regexp, ln) THEN ServerLoop(st, cmds, k + 1, ln, oracle)
    ELSE IF cmds[k].allowed = "False"
    THEN ServerLoop(Log(st, "allowed", k, <<>>, "False"), cmds, k + 1, ln, oracle)
    ELSE LET s0 == IF cmds[k].allowed = "None" THEN st
                   ELSE Log(st, "allowed", k, <<>>, "True")
             s1 == CallApp(s0, "func", k, ln, oracle)
         IN IF s1.exc = "DontStopException"
            THEN ServerLoop([s1 EXCEPT !.exc = ""], cmds, k + 1, ln, oracle)
            ELSE IF s1.exc # "" THEN ServerOnException(s1)
            ELSE s1

\* the abort branch without the assignment connection.intercept = None
ServerAbortKeepsAttached(st, oracle) ==
    IF Truthy(st.intercept.no_abort)
    THEN AndThen(NotifyText(st, st.intercept.no_abort),
                 LAMBDA s : explain(s, s.intercept, oracle))
    ELSE NotifyText(st, PyStr(st.intercept.aborted))

\* the abort branch without the call of intercept.explain
ServerAbortNoExplain(st, oracle) ==
    IF Truthy(st.intercept.no_abort)
    THEN NotifyText(st, st.intercept.no_abort)
    ELSE AndThen(NotifyText(st, PyStr(st.intercept.aborted)),
                 LAMBDA s : [s EXCEPT !.intercept = NoneIntercept])

\* the abort branch of Server.handle_line
ServerAbort(st, oracle) ==
    IF Truthy(st.intercept.no_abort)
    THEN AndThen(NotifyText(st, st.intercept.no_abort),
                 LAMBDA s : explain(s, s.intercept, oracle))
    ELSE AndThen(NotifyText(st, PyStr(st.intercept.aborted)),
                 LAMBDA s : [s EXCEPT !.intercept = NoneIntercept])

\* the feed branch inside the try block the command loop has
ServerFeedContained(st, ln, oracle) ==
    LET s1 == feed([st EXCEPT !.intercept = NoneIntercept], st.intercept, ln, oracle)
    IN IF s1.exc # "" THEN ServerOnException(s1) ELSE s1

\* the branch of Server.handle_line that hands the line to the interceptor
ServerFeed(st, ln, oracle) ==
    feed([st EXCEPT !.intercept = NoneIntercept], st.intercept, ln, oracle)

\* Server.handle_line with the command loop after the feed branch (if for elif)
ServerHandleLineFallThrough(i, cmds, ln, oracle) ==
    LET st == NewRun(i)
    IN IF ~on_command(ln) THEN st
       ELSE IF ln = abort_command /\ i # NoneIntercept THEN ServerAbort(st, oracle)
       ELSE IF i # NoneIntercept
       THEN AndThen(ServerFeed(st, ln, oracle),
                    LAMBDA s : ServerLoop(s, cmds, 1, ln, oracle))
       ELSE ServerLoop(st, cmds, 1, ln, oracle)

\* Server.handle_line
ServerHandleLine(i, cmds, ln, oracle) ==
    LET st == NewRun(i)
    IN IF ~on_command(ln) THEN st
       ELSE IF ln = abort_command /\ i # NoneIntercept THEN ServerAbort(st, oracle)
       ELSE IF i # NoneIntercept THEN ServerFeed(st, ln, oracle)
       ELSE ServerLoop(st, cmds, 1, ln, oracle)

\* Server.notify with an instance of Intercept
NotifyIntercept(st, i, oracle) == explain([st EXCEPT !.intercept = i], i, oracle)

----------------------------------------------------------------------------
(* Parser (gsb/parser.py) *)

command_separator == " "

\* Parser.command_substitutions: ' stands for a name, as the tests configure
\* it, and " stands for a text that itself starts with a key
substitution_keys == <<"'", "\"">>
command_substitutions ==
    [c \in {"'", "\""} |-> IF c = "'" THEN <<"a">> ELSE <<"'">>]

DescriptionMsg == <<"No description available.">>
HelpMsg == <<"No help available.">>

\* Parser.pre_command
pre_command(callerText) == TRUE

\* a split at the last separator of the line
split_at_last(ln) ==
    LET ps == {i \in 1..Len(ln) : ln[i] = command_separator}
        p == IF ps = {} THEN 0 ELSE CHOOSE i \in ps : \A j \in ps : j <= i
    IN IF p = 0 THEN <<ln, <<>>>>
       ELSE <<SubSeq(ln, 1, p - 1), SubSeq(ln, p + 1, Len(ln))>>

\* Parser.split
split(ln) ==
    LET p == Find(ln, command_separator, 1)
    IN IF p = 0 THEN <<ln, <<>>>>
       ELSE <<SubSeq(ln, 1, p - 1), SubSeq(ln, p + 1, Len(ln))>>

\* Parser.get_commands with the newest command first
get_commands_newest_first(cmds, name) ==
    IF name \in DOMAIN cmds
    THEN [k \in 1..Len(cmds[name]) |-> cmds[name][Len(cmds[name]) + 1 - k]]
    ELSE <<>>

\* Parser.get_commands
get_commands(cmds, name) == IF name \in DOMAIN cmds THEN cmds[name] ELSE <<>>

\* a rewriting that is applied to its own result
SubstituteAgain(ln) ==
    LET once(l) == IF l # <<>> /\ l[1] \in DOMAIN command_substitutions
                   THEN command_substitutions[l[1]] \o <<command_separator>> \o Tail(l)
                   ELSE l
    IN once(once(ln))

\* the rewriting at the head of Parser.handle_line
Substitute(ln) ==
    IF ln # <<>> /\ ln[1] \in DOMAIN command_substitutions
    THEN command_substitutions[ln[1]] \o <<command_separator>> \o Tail(ln)
    ELSE ln

\* cmd.args_regexp.match(args) is not None, for the expression '(.+)'
ArgsMatch(regexp, args) ==
    CASE regexp = PyStr(<<"(.+)">>) -> args # <<>>
      [] OTHER -> FALSE

\* a command without args_regexp that takes no arguments
AcceptsEmptyOnly(cmd, args) ==
    IF cmd.args_regexp = PyNone THEN args = <<>> ELSE ArgsMatch(cmd.args_regexp, args)

\* the test of the arguments in Parser.handle_line: a command without
\* args_regexp is not asked about them
Accepts(cmd, args) ==
    cmd.args_regexp = PyNone \/ ArgsMatch(cmd.args_regexp, args)

\* Parser.explain_substitution
explain_substitution(st, short, long) ==
    NotifyText(st, PyStr(<<"Instead of typing \"">> \o long \o <<command_separator>>
                         \o <<"\", you can type ">> \o <<short>> \o <<".">>))

\* the loop of Parser.explain over command_substitutions.items(), from key k
RECURSIVE ExplainSubstitutions(_, _, _)
ExplainSubstitutions(st, cmd, k) ==
    IF k > Len(substitution_keys) THEN st
    ELSE LET key == substitution_keys[k]
             value == command_substitutions[key]
         IN ExplainSubstitutions(
                IF \E i \in 1..Len(cmd.names) : cmd.names[i] = value
                THEN explain_substitution(st, key, value)
                ELSE st,
                cmd, k + 1)

\* Parser.explain
ParserExplain(st, cmd) ==
    LET s0 == Log(st, "explain_command", cmd.id, <<>>, "")
        s1 == NotifyText(s0, PyStr(Join(cmd.names, <<" or ">>) \o <<":">>))
        s2 == ExplainSubstitutions(s1, cmd, 1)
        s3 == NotifyText(s2, PyStr(cmd.description))
    IN NotifyText(s3, PyStr(cmd.help))

\* a dispatcher that does not ask the predicate
AllowedAlways(cmd) == TRUE

\* cmd.allowed(caller)
Allowed(cmd) == cmd.allowed

\* on_error called before caller.exception is assigned
ParserOnExceptionLate(st) ==
    [on_error([st EXCEPT !.exc = ""]) EXCEPT !.exception = TRUE]

\* what Parser.handle_line does with an exception of a command other than
\* DontStopException: the loop goes on with the next command
ParserOnException(st) == on_error([st EXCEPT !.exc = "", !.exception = TRUE])

\* a loop without the else clause
ParserLoopElseNever(st, allowHuh) == st

\* the else clause without the test of the number of commands called
ParserLoopElseAlways(st, allowHuh) == IF allowHuh THEN huh(st) ELSE st

\* the else clause of the loop of Parser.handle_line
ParserLoopElse(st, allowHuh) == IF st.ret = 0 /\ allowHuh THEN huh(st) ELSE st

\* the loop without the break after cmd.func(caller)
RECURSIVE ParserLoopNoBreak(_, _, _, _, _, _, _)
ParserLoopNoBreak(st, cands, k, ln, args, allowHuh, oracle) ==
    IF k > Len(cands) THEN ParserLoopElse(st, allowHuh)
    ELSE IF ~Allowed(cands[k])
    THEN ParserLoopNoBreak(Log(st, "allowed", cands[k].id, <<>>, "False"),
                           cands, k + 1, ln, args, allowHuh, oracle)
    ELSE LET s0 == Log(st, "allowed", cands[k].id, <<>>, "True")
         IN IF ~Accepts(cands[k], args)
            THEN ParserExplain(s0, cands[k])
            ELSE LET s1 == CallApp([s0 EXCEPT !.ret = @ + 1], "func", cands[k].id,
                                   ln, oracle)
                 IN IF s1.exc = "" \/ s1.exc = "DontStopException"
                    THEN ParserLoopNoBreak([s1 EXCEPT !.exc = ""],
                                           cands, k + 1, ln, args, allowHuh, oracle)
                    ELSE ParserLoopNoBreak(ParserOnException(s1),
                                           cands, k + 1, ln, args, allowHuh, oracle)

\* the loop of Parser.handle_line over get_commands(command), from candidate k
RECURSIVE ParserLoop(_, _, _, _, _, _, _)
ParserLoop(st, cands, k, ln, args, allowHuh, oracle) ==
    IF k > Len(cands) THEN ParserLoopElse(st, allowHuh)
    ELSE IF ~Allowed(cands[k])
    THEN ParserLoop(Log(st, "allowed", cands[k].id, <<>>, "False"),
                    cands, k + 1, ln, args, allowHuh, oracle)
    ELSE LET s0 == Log(st, "allowed", cands[k].id, <<>>, "True")
         IN IF ~Accepts(cands[k], args)
            THEN ParserExplain(s0, cands[k])
            ELSE LET s1 == CallApp([s0 EXCEPT !.ret = @ + 1], "func", cands[k].id,
                                   ln, oracle)
                 IN IF s1.exc = "" THEN s1
                    ELSE IF s1.exc = "DontStopException"
                    THEN ParserLoop([s1 EXCEPT !.exc = ""],
                                    cands, k + 1, ln, args, allowHuh, oracle)
                    ELSE ParserLoop(ParserOnException(s1),
                                    cands, k + 1, ln, args, allowHuh, oracle)

\* Parser.handle_line
ParserHandleLine(i, cmds, ln0, allowHuh, oracle) ==
    LET ln == Substitute(ln0)
        st == NewRun(i)
        parts == split(ln)
    IN IF ~pre_command(ln) THEN st
       ELSE ParserLoop(st, get_commands(cmds, parts[1]), 1, ln, parts[2],
                       allowHuh, oracle)

\* Command(func, names, description, help, args_regexp, allowed); allowed is
\* what the predicate returns for this connection
Command(id, names, args_regexp, allowed) ==
    [id |-> id, names |-> names, description |-> DescriptionMsg, help |-> HelpMsg,
     args_regexp |-> args_regexp, allowed |-> allowed]

\* a registration that files the command under its first name only
AddUnderFirstName(cmds, c, k) ==
    LET name == c.names[1]
        l == get_commands(cmds, name)
    IN [n \in DOMAIN cmds \cup {name} |-> IF n = name THEN Append(l, c) ELSE cmds[n]]

\* the loop of Parser.command that files the command under each of its names
RECURSIVE AddUnderNames(_, _, _)
AddUnderNames(cmds, c, k) ==
    IF k > Len(c.names) THEN cmds
    ELSE LET name == c.names[k]
             l == get_commands(cmds, name)
             next == [n \in DOMAIN cmds \cup {name} |->
                          IF n = name THEN Append(l, c) ELSE cmds[n]]
         IN AddUnderNames(next, c, k + 1)

----------------------------------------------------------------------------
(* The applications.  "commands" is a Server whose commands attach the     *)
(* plain interceptor Child; "prompts" is a Server with at most one command *)
(* that sends the connection any of the interceptors below; "parser"       *)
(* dispatches with a Parser.                                               *)

Applications == {"commands", "prompts", "parser"}

Dispatcher(a) == IF a = "parser" THEN "Parser" ELSE "Server"

NoAbortMsg == <<"You cannot abort this.">>

\* no_abort: unset, an empty string, a message, a callable
NoAborts == {PyNone, PyStr(<<>>), PyStr(NoAbortMsg), PyFunc}

Hooks == {PyNone, PyFunc}

BaseIntercepts ==
    { [kind |-> "Intercept", id |-> 1, persistent |-> p, no_abort |-> na,
       aborted |-> AbortedMsg] : p \in BOOLEAN, na \in NoAborts }

\* Menu.__attrs_post_init__ numbers the items from 1
MenuItems ==
    << [text |-> <<"A", "x">>, index |-> 1],
       [text |-> <<"a", "y">>, index |-> 2],
       [text |-> <<"b">>, index |-> 3] >>

MenuLabels ==
    << [text |-> <<"Things">>, after |-> 0], [text |-> <<"More">>, after |-> 2] >>

Menus ==
    { [kind |-> "Menu", id |-> 2, persistent |-> p, no_abort |-> na,
       aborted |-> AbortedMsg, title |-> <<"Select an item:">>,
       items |-> c.items, labels |-> c.labels,
       prompt |-> <<"Type a number or @abort to abort.">>,
       no_matches |-> h, multiple_matches |-> h] :
      p \in BOOLEAN, na \in {PyNone, PyStr(NoAbortMsg)}, h \in Hooks,
      c \in { [items |-> MenuItems, labels |-> MenuLabels],
              [items |-> <<>>, labels |-> <<>>] } }

\* the hooks of a Reader are all unset, all texts or all callables
Readers ==
    { [kind |-> "Reader", id |-> 3, persistent |-> p, no_abort |-> na,
       aborted |-> AbortedMsg, prompt |-> h, before_line |-> h,
       after_line |-> h, buffer |-> <<>>] :
      p \in BOOLEAN, na \in {PyNone, PyStr(NoAbortMsg)},
      h \in {PyNone, PyStr(<<"line">>), PyFunc} }

YesOrNos ==
    { [kind |-> "YesOrNo", id |-> 4, persistent |-> p, no_abort |-> na,
       aborted |-> AbortedMsg, question |-> <<"Sure?">>,
       prompt |-> <<"Enter \"yes\" or \"no\" or @abort to abort the command.">>,
       no |-> n] :
      p \in BOOLEAN, na \in {PyNone, PyStr(NoAbortMsg)}, n \in {"default", "custom"} }

Intercepts == BaseIntercepts \cup Menus \cup Readers \cup YesOrNos

\* what a command function may do, and what a callback of an interceptor may do.
\* Parser.handle_line never reads connection.intercept, so commands that attach
\* an interceptor are explored under the Server only.
FuncOutcomes == {"ok", "attach", "fail", "dont_stop"}
ParserFuncOutcomes == {"ok", "fail", "dont_stop"}
CallbackOutcomes == {"ok", "attach", "fail"}

\* the regular expressions and predicates of the commands of a Server
ServerCommandChoices(a) ==
    IF a = "prompts" THEN { [regexp |-> "^[^$]+$", allowed |-> "None"] }
    ELSE { [regexp |-> r, allowed |-> al] :
           r \in {"^a$", "^[^$]+$"}, al \in {"None", "True", "False"} }

ServerCommandsBound(a) == IF a = "prompts" THEN 1 ELSE MaxServerCmds

\* the names, argument expressions and predicates of the commands of a Parser
CommandNames == { <<<<"a">>>>, <<<<"b">>>> }
ArgsRegexps == {PyNone, PyStr(<<"(.+)">>)}

----------------------------------------------------------------------------
(* The state machine *)

\* no call of notify or broadcast yet
NoArguments == [text |-> PyNone, args |-> <<>>]

Init ==
    /\ app \in Applications
    /\ intercept = NoneIntercept
    /\ serverCommands = <<>>
    /\ commands = [n \in {} |-> <<>>]
    /\ registered = 0
    /\ line = <<>>
    /\ before = NoneIntercept
    /\ operation = "init"
    /\ allow_huh = TRUE
    /\ events = <<>>
    /\ outcome = "none"
    /\ given = NoArguments
    /\ connections = <<>>
    /\ sessions = [c \in {} |-> NoneIntercept]
    /\ menu = NoneIntercept

\* the record of the last operation
Observe(op, ln, allowHuh, st) ==
    /\ operation' = op
    /\ line' = ln
    /\ allow_huh' = allowHuh
    /\ before' = intercept
    /\ intercept' = st.intercept
    /\ events' = st.events
    /\ outcome' = IF st.exc = "" THEN "returned" ELSE st.exc
    /\ UNCHANGED <<given, connections, sessions, menu>>

\* Server.add_command
ServerAddCommand(c) ==
    /\ Dispatcher(app) = "Server"
    /\ Len(serverCommands) < ServerCommandsBound(app)
    /\ serverCommands' = Append(serverCommands, c)
    /\ Observe("command", <<>>, TRUE, NewRun(intercept))
    /\ UNCHANGED <<app, commands, registered>>

\* Parser.command
ParserCommand(names, args_regexp, allowed) ==
    /\ Dispatcher(app) = "Parser"
    /\ registered < MaxCmds
    /\ registered' = registered + 1
    /\ commands' = AddUnderNames(commands,
                                 Command(registered + 1, names, args_regexp, allowed), 1)
    /\ Observe("command", <<>>, TRUE, NewRun(intercept))
    /\ UNCHANGED <<app, serverCommands>>

\* the number of application calls Server.notify can make explaining i
ExplainCalls(i) ==
    IF i.kind = "Reader"
    THEN (IF i.prompt = PyFunc THEN 1 ELSE 0) + (IF i.before_line = PyFunc THEN 1 ELSE 0)
    ELSE 0

\* the number of application calls one line can make
ServerCalls(ln) ==
    IF intercept = NoneIntercept
    THEN Cardinality({k \in 1..Len(serverCommands) :
                        /\ Search(serverCommands[k].regexp, ln)
                        /\ serverCommands[k].allowed # "False"})
    ELSE IF ln = abort_command THEN ExplainCalls(intercept)
    ELSE CASE intercept.kind = "Reader" ->
                 IF intercept.after_line = PyFunc THEN 2 ELSE 1
           [] intercept.kind = "Intercept" -> 0
           [] OTHER -> 1

ParserCalls(ln) ==
    LET cands == get_commands(commands, split(Substitute(ln))[1])
    IN Cardinality({k \in 1..Len(cands) : cands[k].allowed})

\* a multiline Reader keeps at most MaxBuffer characters
BufferFits(ln) ==
    (/\ intercept # NoneIntercept
     /\ intercept.kind = "Reader"
     /\ intercept.persistent
     /\ ln # done_marker
     /\ ln # abort_command) => Len(intercept.buffer) + 1 + Len(ln) <= MaxBuffer

\* a line arrives and Server.handle_line runs
ServerLine(ln, oracle) ==
    /\ Dispatcher(app) = "Server"
    /\ BufferFits(ln)
    /\ Observe("handle_line", ln, TRUE,
               ServerHandleLine(intercept, serverCommands, ln, oracle))
    /\ UNCHANGED <<app, serverCommands, commands, registered>>

\* a line arrives and Parser.handle_line runs
ParserLine(ln, allowHuh, oracle) ==
    /\ Dispatcher(app) = "Parser"
    /\ Observe("handle_line", ln, allowHuh,
               ParserHandleLine(intercept, commands, ln, allowHuh, oracle))
    /\ UNCHANGED <<app, serverCommands, commands, registered>>

\* the application sends an interceptor to a connection that has none:
\* Server.notify
Notify(i, oracle) ==
    /\ app = "prompts"
    /\ intercept = NoneIntercept
    /\ Observe("notify", <<>>, TRUE, NotifyIntercept(NewRun(intercept), i, oracle))
    /\ UNCHANGED <<app, serverCommands, commands, registered>>

Next ==
    \/ \E c \in ServerCommandChoices(app) : ServerAddCommand(c)
    \/ \E names \in CommandNames, r \in ArgsRegexps, a \in BOOLEAN :
           ParserCommand(names, r, a)
    \/ \E ln \in ServerLines :
           \E oracle \in [1..ServerCalls(ln) -> IF intercept # NoneIntercept
                                                 THEN CallbackOutcomes
                                                 ELSE FuncOutcomes] :
               ServerLine(ln, oracle)
    \/ \E ln \in ParserLines, allowHuh \in BOOLEAN :
           \E oracle \in [1..ParserCalls(ln) -> ParserFuncOutcomes] :
               ParserLine(ln, allowHuh, oracle)
    \/ \E i \in Intercepts : \E oracle \in [1..ExplainCalls(i) -> CallbackOutcomes] :
           Notify(i, oracle)

Spec == Init /\ [][Next]_vars

----------------------------------------------------------------------------
(* Properties.  events, before, intercept and outcome describe the last    *)
(* operation: what it did, the interceptor it found, the interceptor it    *)
(* left and how it ended.                                                  *)

Pos(ops) == {i \in 1..Len(events) : events[i].op \in ops}
Count(ops) == Cardinality(Pos(ops))
Failed(ops) == \E i \in Pos(ops) : events[i].res = "fail"
Attached == \E i \in 1..Len(events) : events[i].res = "attach"

\* the events that are calls of a callback of an interceptor
Callbacks ==
    {"item", "done", "yes", "no", "no_matches", "multiple_matches", "prompt",
     "before_line", "after_line"}

Sent(text) ==
    [op |-> "sendLine", n |-> 0, text |-> text, res |-> "", exception |-> FALSE]

ServerLineDone == Dispatcher(app) = "Server" /\ operation = "handle_line"
ParserLineDone == Dispatcher(app) = "Parser" /\ operation = "handle_line"

\* the last line found an interceptor, or found none
Intercepted == ServerLineDone /\ before # NoneIntercept
ServerNormal == ServerLineDone /\ before = NoneIntercept

\* the commands the last line selects, in the order the dispatcher meets them
ParserCandidates == get_commands(commands, split(Substitute(line))[1])
ServerCandidates ==
    {k \in 1..Len(serverCommands) : Search(serverCommands[k].regexp, line)}

\* C1: the abort command with an interceptor whose no_abort is unset (None, or
\* empty) sends the interceptor's abort message and nothing else, leaves the
\* connection without an interceptor, and calls neither feed nor any callback.
C1_AbortDetaches ==
    (Intercepted /\ line = abort_command /\ ~Truthy(before.no_abort)) =>
        /\ events = <<Sent(before.aborted)>>
        /\ intercept = NoneIntercept
        /\ Count({"feed", "explain"} \cup Callbacks) = 0
        /\ outcome = "returned"

C1_Witness ==
    /\ Intercepted /\ line = abort_command
    /\ before.kind = "Reader" /\ before.persistent /\ before.no_abort = PyNone
    /\ intercept = NoneIntercept

\* C2: the abort command with an interceptor whose no_abort is a message sends
\* that message first, then calls explain of that interceptor once more, never
\* calls feed and never detaches the interceptor: it is still the active one
\* unless a prompt callback that explain runs attached another.
C2_NoAbortRefuses ==
    (/\ Intercepted /\ line = abort_command
     /\ before.no_abort.type = "str" /\ before.no_abort.value # <<>>) =>
        /\ Len(events) >= 2
        /\ events[1] = Sent(before.no_abort.value)
        /\ events[2].op = "explain" /\ events[2].n = before.id
        /\ Cardinality({i \in Pos({"explain"}) : events[i].n = before.id}) = 1
        /\ Count({"feed", "item", "done", "yes", "no"}) = 0
        /\ intercept \in {before, Child}
        /\ ~Attached => intercept = before

C2_Witness ==
    /\ Intercepted /\ line = abort_command
    /\ before.kind = "Menu" /\ before.no_abort = PyStr(NoAbortMsg)
    /\ before.items # <<>>
    /\ intercept = before
    /\ Count({"sendLine"}) > 3

\* C3: a line other than the abort command that finds an interceptor is fed to
\* that interceptor exactly once, before anything else, and no command is
\* tried: no predicate, no handler, no huh.
C3_FedOnce ==
    (Intercepted /\ line # abort_command) =>
        /\ Count({"feed"}) = 1
        /\ events[1].op = "feed" /\ events[1].n = before.id /\ events[1].text = line
        /\ Count({"func", "allowed", "huh"}) = 0

C3_Witness ==
    /\ Intercepted /\ line # abort_command
    /\ before.kind = "Menu"
    /\ Len(serverCommands) > 0
    /\ Search(serverCommands[1].regexp, line)
    /\ serverCommands[1].allowed # "False"
    /\ Count({"feed"}) = 1

\* C4: a line on which a command handler fails has exactly one on_error call,
\* and handle_line returns.
C4_OneOnError ==
    (operation = "handle_line" /\ Failed({"func"})) =>
        /\ Count({"on_error"}) = 1
        /\ outcome = "returned"

\* C5: after a command handler fails nothing more is dispatched for the line:
\* no predicate of a later candidate, no later handler, no huh.
C5_FailureEndsDispatch ==
    operation = "handle_line" =>
        \A i \in Pos({"func"}) :
            events[i].res = "fail" =>
                \A j \in (i + 1)..Len(events) :
                    events[j].op \notin {"allowed", "func", "huh", "explain_command"}

\* C6: a failure of a command handler does not leave handle_line: the call
\* returns, and the on_error that follows the failure finds caller.exception
\* already set.
C6_FailureContained ==
    (operation = "handle_line" /\ Failed({"func"})) =>
        /\ outcome = "returned"
        /\ \A i \in Pos({"func"}) :
               events[i].res = "fail" =>
                   /\ i < Len(events)
                   /\ events[i + 1].op = "on_error"
                   /\ events[i + 1].exception
        /\ \A i \in Pos({"on_error"}) : events[i].exception

C6_Witness ==
    /\ ParserLineDone
    /\ Failed({"func"})
    /\ Count({"on_error"}) = 1
    /\ outcome = "returned"

C8_ContinueInOrder ==
    /\ ParserLineDone =>
           LET cands == ParserCandidates
           IN /\ \A i, j \in Pos({"allowed"}) : i < j => events[i].n < events[j].n
              /\ \A i, j \in Pos({"func"}) : i < j => events[i].n < events[j].n
              /\ \A i \in Pos({"func", "allowed"}) :
                     \E p \in 1..Len(cands) : cands[p].id = events[i].n
              /\ \A i \in Pos({"func"}) :
                     events[i].res = "dont_stop" =>
                         \A p \in 1..(Len(cands) - 1) :
                             cands[p].id = events[i].n =>
                                 /\ i < Len(events)
                                 /\ events[i + 1].op = "allowed"
                                 /\ events[i + 1].n = cands[p + 1].id
    /\ ServerNormal =>
           LET callable == {k \in ServerCandidates : serverCommands[k].allowed # "False"}
           IN /\ \A i, j \in Pos({"func"}) : i < j => events[i].n < events[j].n
              /\ \A i \in Pos({"func"}) : events[i].n \in callable
              /\ \A i \in Pos({"func"}) :
                     events[i].res = "dont_stop" =>
                         \A k \in callable :
                             (/\ k > events[i].n
                              /\ \A m \in callable : m > events[i].n => k <= m) =>
                                 \E j \in Pos({"func"}) : j > i /\ events[j].n = k

C8_Witness ==
    /\ ParserLineDone
    /\ Len(ParserCandidates) = 2
    /\ \E i, j \in Pos({"func"}) :
           /\ i < j
           /\ events[i].res = "dont_stop"
           /\ events[i].n = ParserCandidates[1].id
           /\ events[j].n = ParserCandidates[2].id

\* every command the last line selects had its handler called, and every one
\* of these calls ended with dont_stop
ParserAllContinue ==
    /\ ParserLineDone
    /\ Len(ParserCandidates) > 0
    /\ Count({"func"}) = Len(ParserCandidates)
    /\ \A p \in 1..Len(ParserCandidates) :
           \E i \in Pos({"func"}) :
               events[i].n = ParserCandidates[p].id /\ events[i].res = "dont_stop"

ServerAllContinue ==
    /\ ServerNormal
    /\ ServerCandidates # {}
    /\ Count({"func"}) = Cardinality(ServerCandidates)
    /\ \A k \in ServerCandidates :
           \E i \in Pos({"func"}) : events[i].n = k /\ events[i].res = "dont_stop"

\* C9 as amended: when every candidate's handler was called and every one
\* called dont_stop, the dispatch ends after the last candidate;
\* Parser.handle_line then calls no huh, with allow_huh or without, and
\* Server.handle_line calls huh exactly once.
C9_AllContinue ==
    /\ ParserAllContinue =>
           /\ Count({"huh"}) = 0
           /\ events[Len(events)].op = "func"
           /\ outcome = "returned"
    /\ ServerAllContinue =>
           /\ Count({"huh"}) = 1
           /\ events[Len(events) - 2].op = "func"
           /\ events[Len(events) - 1].op = "huh"
           /\ events[Len(events)] = Sent(HuhMsg)
           /\ outcome = "returned"

C9_Witness ==
    /\ ParserAllContinue
    /\ Len(ParserCandidates) = 2
    /\ allow_huh
    /\ Count({"sendLine"}) = 0

\* C9 as stated: when every candidate's handler was called and every one
\* called dont_stop, huh is called exactly once.
C9_AllContinueHuh ==
    ((ParserAllContinue /\ allow_huh) \/ ServerAllContinue) => Count({"huh"}) = 1

\* C10: when exactly one of the commands filed under the name of the line has
\* a true predicate, no handler but that command's is called, it is called
\* once when the arguments fit it, and a command whose predicate is false is
\* followed by the next predicate or by nothing: it sends nothing, not even huh.
C10_OnlyAllowedRuns ==
    ParserLineDone =>
        LET cands == ParserCandidates
            permitted == {p \in 1..Len(cands) : cands[p].allowed}
        IN Cardinality(permitted) = 1 =>
               LET c == cands[CHOOSE p \in permitted : TRUE]
               IN /\ \A i \in Pos({"func"}) : events[i].n = c.id
                  /\ Count({"func"}) <= 1
                  /\ (\/ c.args_regexp = PyNone
                      \/ ArgsMatch(c.args_regexp, split(Substitute(line))[2])) =>
                         Count({"func"}) = 1
                  /\ \A i \in Pos({"allowed"}) :
                         events[i].res = "False" =>
                             i = Len(events) \/ events[i + 1].op = "allowed"
                  /\ Count({"huh"}) = 0
                  /\ \A i \in Pos({"sendLine", "explain_command", "on_error"}) :
                         \E j \in 1..(i - 1) :
                             /\ events[j].op = "allowed"
                             /\ events[j].n = c.id
                             /\ events[j].res = "True"

C10_Witness ==
    /\ ParserLineDone
    /\ Len(ParserCandidates) = 2
    /\ ~ParserCandidates[1].allowed
    /\ ParserCandidates[2].allowed
    /\ Count({"allowed"}) = 2
    /\ Count({"func"}) = 1

\* C11: when every command filed under the name of the line has a false
\* predicate, every predicate is asked, no handler is called, no help is sent
\* and huh is called exactly once, sending its one message (nothing at all
\* when the caller passed allow_huh false).  The same holds of a Server all of
\* whose matching commands have a false predicate.
C11_AllDenied ==
    /\ (/\ ParserLineDone
        /\ Len(ParserCandidates) > 0
        /\ \A p \in 1..Len(ParserCandidates) : ~ParserCandidates[p].allowed) =>
           /\ Count({"func", "explain_command", "on_error"}) = 0
           /\ Count({"allowed"}) = Len(ParserCandidates)
           /\ allow_huh =>
                  /\ Count({"huh"}) = 1
                  /\ Count({"sendLine"}) = 1
                  /\ events[Len(events)] = Sent(HuhMsg)
           /\ ~allow_huh => Count({"huh", "sendLine"}) = 0
           /\ outcome = "returned"
    /\ (/\ ServerNormal
        /\ ServerCandidates # {}
        /\ \A k \in ServerCandidates : serverCommands[k].allowed = "False") =>
           /\ Count({"func", "on_error"}) = 0
           /\ Count({"huh"}) = 1
           /\ Count({"sendLine"}) = 1
           /\ events[Len(events)] = Sent(HuhMsg)

C11_Witness ==
    /\ ParserLineDone
    /\ Len(ParserCandidates) = 2
    /\ \A p \in 1..2 : ~ParserCandidates[p].allowed
    /\ allow_huh
    /\ Count({"huh"}) = 1
    /\ Count({"allowed"}) = 2

\* the allowed events of the last line whose command has an args_regexp that
\* does not match the arguments of the line
Mismatches ==
    {i \in Pos({"allowed"}) :
        /\ events[i].res = "True"
        /\ \E p \in 1..Len(ParserCandidates) :
               /\ ParserCandidates[p].id = events[i].n
               /\ ParserCandidates[p].args_regexp # PyNone
               /\ ~ArgsMatch(ParserCandidates[p].args_regexp,
                             split(Substitute(line))[2])}

\* C12: when a permitted command's args_regexp does not match the arguments,
\* the command is explained (its names, description and help are sent), its
\* handler is not called, nothing else is tried afterwards, and the line has
\* neither an on_error nor a huh.
C12_MismatchExplains ==
    ParserLineDone =>
        \A i \in Mismatches :
            /\ i < Len(events)
            /\ events[i + 1].op = "explain_command"
            /\ events[i + 1].n = events[i].n
            /\ Len(events) >= i + 4
            /\ \A j \in (i + 2)..Len(events) : events[j].op = "sendLine"
            /\ events[Len(events) - 1].text = DescriptionMsg
            /\ events[Len(events)].text = HelpMsg
            /\ \A j \in Pos({"func"}) : events[j].n # events[i].n
            /\ Count({"on_error", "huh"}) = 0

\* C13: once a command handler has returned normally nothing more is
\* dispatched for the line: no later predicate, no later handler, no help, no
\* on_error and no huh; handle_line returns.
C13_NormalEndsDispatch ==
    operation = "handle_line" =>
        \A i \in Pos({"func"}) :
            events[i].res \in {"ok", "attach"} =>
                /\ \A j \in (i + 1)..Len(events) :
                       events[j].op \notin
                           {"allowed", "func", "huh", "on_error", "explain_command"}
                /\ outcome = "returned"

C13_Witness ==
    /\ ParserLineDone
    /\ Len(ParserCandidates) = 2
    /\ \A p \in 1..2 : ParserCandidates[p].allowed
    /\ Count({"func"}) = 1
    /\ Count({"allowed"}) = 1
    /\ \E i \in Pos({"func"}) :
           events[i].res = "ok" /\ events[i].n = ParserCandidates[1].id
    /\ Count({"sendLine"}) = 0

\* C14: a line whose command name has no command filed under it calls huh
\* exactly once, which sends "I don't understand that.", and calls nothing
\* else; when handle_line is called with allow_huh false the same line calls
\* nothing and sends nothing.
C14_NoCommands ==
    (ParserLineDone /\ split(Substitute(line))[1] \notin DOMAIN commands) =>
        /\ allow_huh =>
               events = << [op |-> "huh", n |-> 0, text |-> <<>>, res |-> "",
                            exception |-> FALSE],
                           Sent(HuhMsg) >>
        /\ ~allow_huh => events = <<>>
        /\ outcome = "returned"

C14_Witness ==
    /\ ParserLineDone
    /\ registered > 0
    /\ line # <<>>
    /\ split(Substitute(line))[1] \notin DOMAIN commands
    /\ allow_huh
    /\ Count({"huh"}) = 1

\* C15 as amended: a command without args_regexp does not look at the
\* arguments: whenever its predicate is true its handler is called next, with
\* the whole line as caller.text, whatever follows the command name.
C15_NoPatternAcceptsAny ==
    ParserLineDone =>
        \A i \in Pos({"allowed"}) :
            (/\ events[i].res = "True"
             /\ \E p \in 1..Len(ParserCandidates) :
                    /\ ParserCandidates[p].id = events[i].n
                    /\ ParserCandidates[p].args_regexp = PyNone) =>
                /\ i < Len(events)
                /\ events[i + 1].op = "func"
                /\ events[i + 1].n = events[i].n
                /\ events[i + 1].text = Substitute(line)

C15_Witness ==
    /\ ParserLineDone
    /\ line = <<"a", " ", "x">>
    /\ Len(ParserCandidates) = 1
    /\ ParserCandidates[1].args_regexp = PyNone
    /\ ParserCandidates[1].allowed
    /\ Count({"func"}) = 1
    /\ Count({"sendLine"}) = 0

\* C15 as stated: the handler of a command without args_regexp is not called
\* for a line that has something after the command name.
C15_NoPatternEmptyOnly ==
    (ParserLineDone /\ split(Substitute(line))[2] # <<>>) =>
        \A i \in Pos({"func"}) :
            \A p \in 1..Len(ParserCandidates) :
                ParserCandidates[p].id = events[i].n =>
                    ParserCandidates[p].args_regexp # PyNone

----------------------------------------------------------------------------
(* Parser.split on its own: the lines of at most MaxSplitLen characters    *)
(* over two letters and the separator.  events holds the two elements of   *)
(* the list split returns.                                                 *)

SplitChars == {"a", "b", command_separator}
SplitLines == UNION {[1..n -> SplitChars] : n \in 0..MaxSplitLen}

\* p.split(line), as tests/command_test.py calls it
SplitCall(ln) ==
    /\ Dispatcher(app) = "Parser"
    /\ Observe("split", ln, TRUE,
               Log(Log(NewRun(intercept), "split", 1, split(ln)[1], ""),
                   "split", 2, split(ln)[2], ""))
    /\ UNCHANGED <<app, serverCommands, commands, registered>>

SplitInit == Init /\ app = "parser"
SplitNext == \E ln \in SplitLines : SplitCall(ln)
SplitSpec == SplitInit /\ [][SplitNext]_vars

\* C16: split returns the line cut at its first separator: the name holds no
\* separator, name + separator + remainder is the line when the line holds a
\* separator, and otherwise the name is the line and the remainder is the
\* empty string.
C16_SplitFirst ==
    operation = "split" =>
        LET name == events[1].text
            rest == events[2].text
        IN /\ Len(events) = 2
           /\ \A i \in 1..Len(name) : name[i] # command_separator
           /\ (\E i \in 1..Len(line) : line[i] = command_separator) =>
                  name \o <<command_separator>> \o rest = line
           /\ (\A i \in 1..Len(line) : line[i] # command_separator) =>
                  name = line /\ rest = <<>>

C16_Witness ==
    /\ operation = "split"
    /\ line = <<"a", " ", "b", " ">>
    /\ events[1].text = <<"a">>
    /\ events[2].text = <<"b", " ">>

\* the line Parser.handle_line works on: the line it was given, or, when the
\* first character of that line is a key of command_substitutions, the key's
\* value, the separator and the rest of the line
Rewritten ==
    IF line # <<>> /\ line[1] \in DOMAIN command_substitutions
    THEN command_substitutions[line[1]] \o <<command_separator>> \o Tail(line)
    ELSE line

\* C17: a line that starts with a key is rewritten once to value + separator
\* + rest before it is split and matched: the commands asked are those filed
\* under the name of the rewritten line, a handler finds the rewritten line
\* in caller.text, and a rewritten line that starts with a key again is not
\* rewritten again.  Other lines, the empty line too, are taken as they are.
C17_SubstituteOnce ==
    ParserLineDone =>
        LET cands == get_commands(commands, split(Rewritten)[1])
        IN /\ \A i \in Pos({"func"}) : events[i].text = Rewritten
           /\ \A i \in Pos({"func", "allowed", "explain_command"}) :
                  \E p \in 1..Len(cands) : cands[p].id = events[i].n
           /\ (cands # <<>> /\ cands[1].allowed) =>
                  events # <<>> /\ events[1].op = "allowed" /\ events[1].n = cands[1].id
           /\ (cands = <<>> /\ allow_huh) => Count({"huh"}) = 1

C17_Witness ==
    /\ ParserLineDone
    /\ line = <<"'", "x">>
    /\ \E i \in Pos({"func"}) : events[i].text = <<"a", " ", "x">>

----------------------------------------------------------------------------
(* Parser.command on its own, with commands that have one name or two.     *)

RegistryNames ==
    { <<<<"a">>>>, <<<<"b">>>>, <<<<"a">>, <<"b">>>>, <<<<"b">>, <<"a">>>> }

RegistryInit == Init /\ app = "parser"
RegistryNext ==
    \E names \in RegistryNames, r \in ArgsRegexps, a \in BOOLEAN :
        ParserCommand(names, r, a)
RegistrySpec == RegistryInit /\ [][RegistryNext]_vars

\* the names a command was registered with
NamesOf(c) == {c.names[i] : i \in 1..Len(c.names)}

----------------------------------------------------------------------------
(* Menus on their own: the application sends a connection a Menu, and the  *)
(* connection answers with one of MenuLines.                               *)

MenuLines ==
    { <<>>, <<"$">>, <<" ", "$">>, <<"$", " ">>, <<"0">>, <<"1">>, <<"2">>,
      <<"3">>, <<"4">>, <<"-", "1">>, <<" ", "2">>, <<"a">>, <<"A">>,
      <<"a", "x">>, <<"A", "Y">>, <<"b">>, <<"B">>, <<"x">>,
      <<"f", "i", "r", "s", "t">>, <<"t", "h", "i", "n", "g">> }

\* the menu of test_menu
ThingItems ==
    << [text |-> <<"F", "i", "r", "s", "t", " ", "T", "h", "i", "n", "g">>, index |-> 1],
       [text |-> <<"s", "e", "c", "o", "n", "d", " ", "T", "h", "i", "n", "g">>,
        index |-> 2],
       [text |-> <<"T", "h", "i", "r", "d", " ", "T", "h", "i", "n", "g">>, index |-> 3] >>

ThingMenus ==
    { [kind |-> "Menu", id |-> 2, persistent |-> p, no_abort |-> PyNone,
       aborted |-> AbortedMsg, title |-> <<"Test Menu">>,
       items |-> ThingItems, labels |-> <<>>,
       prompt |-> <<"Type a number or @abort to abort.">>,
       no_matches |-> PyNone, multiple_matches |-> PyNone] : p \in BOOLEAN }

MenuInit == Init /\ app = "prompts"
MenuNext ==
    \/ \E i \in Menus \cup ThingMenus : Notify(i, <<>>)
    \/ \E ln \in MenuLines :
           \E oracle \in [1..ServerCalls(ln) -> CallbackOutcomes] :
               ServerLine(ln, oracle)
MenuSpec == MenuInit /\ [][MenuNext]_vars

\* the last line was fed to a Menu
MenuFed == Intercepted /\ before.kind = "Menu" /\ line # abort_command

\* the items Menu.match returned on the last line: the index of each item
\* whose function Menu.feed called
Selected == [i \in 1..Count({"item"}) |->
                events[CHOOSE j \in Pos({"item"}) :
                           Cardinality({k \in Pos({"item"}) : k <= j}) = i].n]

\* C19 as amended: Menu.match returns the last item of a menu that has items
\* when the lower-cased input is exactly "$"; the input is not trimmed, so
\* "$" with a blank before or after it is no selection and takes the
\* no-match path; on a menu without items "$" raises IndexError.
C19_DollarExact ==
    /\ (MenuFed /\ Lower(line) = <<"$">> /\ before.items # <<>>) =>
           /\ Selected = <<Len(before.items)>>
           /\ Count({"no_matches", "multiple_matches"}) = 0
    /\ (MenuFed /\ Lower(line) = <<"$">> /\ before.items = <<>>) =>
           /\ outcome = "IndexError"
           /\ Count({"item", "no_matches", "multiple_matches"}) = 0
    /\ (MenuFed /\ Lower(line) # <<"$">> /\ Strip(Lower(line), " ") = <<"$">>) =>
           /\ Count({"item", "multiple_matches"}) = 0
           /\ Count({"no_matches"}) = 1

C19_Witness ==
    /\ MenuFed
    /\ line = <<"$">>
    /\ Len(before.items) = 3
    /\ Selected = <<3>>

\* C19 as stated: Menu.match returns the last item when the input, trimmed
\* and lower-cased, is "$".
C19_DollarTrimmed ==
    (MenuFed /\ Strip(Lower(line), " ") = <<"$">> /\ before.items # <<>>) =>
        Selected = <<Len(before.items)>>

\* C20: an input that int() reads as a number n with 1 <= n <= len(items)
\* selects the n-th item of the menu, the one printed with [n], and calls
\* neither the no_matches nor the multiple_matches hook.
C20_NumberSelects ==
    /\ (/\ MenuFed
        /\ IsInt(Lower(line))
        /\ 1 <= IntOf(Lower(line))
        /\ IntOf(Lower(line)) <= Len(before.items)) =>
           /\ Selected = <<IntOf(Lower(line))>>
           /\ before.items[IntOf(Lower(line))].index = IntOf(Lower(line))
           /\ Count({"no_matches", "multiple_matches"}) = 0
    /\ (MenuFed /\ before.items # <<>>) =>
           /\ line = <<"1">> => Selected = <<1>>
           /\ line \in {<<"2">>, <<" ", "2">>} => Selected = <<2>>
           /\ line = <<"3">> => Selected = <<3>>

C20_Witness ==
    /\ MenuFed
    /\ line = <<"2">>
    /\ Len(before.items) = 3
    /\ Selected = <<2>>
    /\ before.items[2].text = <<"a", "y">>
    /\ Count({"sendLine"}) = 0

\* C21: an input that int() reads as 0, as a negative number or as a number
\* greater than len(items) selects no item and calls the no_matches hook.
C21_OutOfRangeNoMatch ==
    (/\ MenuFed
     /\ IsInt(Lower(line))
     /\ (IntOf(Lower(line)) < 1 \/ IntOf(Lower(line)) > Len(before.items))) =>
        /\ Selected = <<>>
        /\ Count({"no_matches"}) = 1

\* the positions of the items of the menu whose label, lower-cased, starts
\* with the lower-cased line
LabelMatches ==
    {k \in 1..Len(before.items) :
        StartsWith(Lower(before.items[k].text), Lower(line))}

\* the last line was fed to a Menu and is neither "$", nor a number, nor empty
MenuWord ==
    /\ MenuFed
    /\ Lower(line) # <<"$">>
    /\ ~IsInt(Lower(line))
    /\ line # <<>>

\* C22: a non-empty input that is not a number and is, whatever its case, a
\* prefix of the label of exactly one item selects that item and calls
\* neither the no_matches nor the multiple_matches hook.
C22_UniquePrefixSelects ==
    /\ (MenuWord /\ Cardinality(LabelMatches) = 1) =>
           /\ Selected = <<CHOOSE k \in LabelMatches : TRUE>>
           /\ Count({"no_matches", "multiple_matches"}) = 0
    /\ (MenuFed /\ before.items = ThingItems /\ line = <<"f", "i", "r", "s", "t">>) =>
           Selected = <<1>>
    /\ (MenuFed /\ before.items = MenuItems) =>
           /\ line = <<"a", "x">> => Selected = <<1>>
           /\ line = <<"A", "Y">> => Selected = <<2>>
           /\ line \in {<<"b">>, <<"B">>} => Selected = <<3>>

C22_Witness ==
    /\ MenuFed
    /\ line = <<"a", "x">>
    /\ Len(before.items) = 3
    /\ before.items[1].text = <<"A", "x">>
    /\ Selected = <<1>>
    /\ Count({"no_matches", "multiple_matches"}) = 0

\* the i-th smallest member of a set of numbers
Nth(S, i) == CHOOSE k \in S : Cardinality({j \in S : j <= k}) = i

\* the texts sent to the connection during the last operation
SentTexts == {events[j].text : j \in Pos({"sendLine"})}

C24_ThingAmbiguous ==
    (MenuFed /\ before.items = ThingItems /\ line = <<"t", "h", "i", "n", "g">>) =>
        /\ Count({"multiple_matches"}) = 1
        /\ events[CHOOSE j \in Pos({"multiple_matches"}) : TRUE].text = <<"2", "3">>

\* the last line was fed to a Menu and matches none of its items: it is
\* empty, or a word no label starts with, or a number that is no list index
NoItemMatches ==
    /\ MenuFed
    /\ Lower(line) # <<"$">>
    /\ \/ line = <<>>
       \/ ~IsInt(Lower(line)) /\ LabelMatches = {}
       \/ /\ IsInt(Lower(line))
          /\ LabelMatches = {}
          /\ \/ IntOf(Lower(line)) > Len(before.items)
             \/ IntOf(Lower(line)) < 0 - Len(before.items)
             \/ before.items = <<>>

C26_SelectionLeavesMenu ==
    (MenuFed /\ Selected # <<>>) =>
        /\ Len(Selected) = 1
        /\ LET e == events[CHOOSE j \in Pos({"item"}) : TRUE]
           IN /\ e.text = line
              /\ intercept # NoneIntercept => (e.res = "attach" /\ intercept = Child)
              /\ e.res = "attach" => intercept = Child
        /\ intercept # before
        /\ \A j \in Pos({"explain"}) : events[j].n # before.id

C26_Witness ==
    /\ MenuFed
    /\ before.persistent
    /\ line = <<"3">>
    /\ Selected = <<3>>
    /\ outcome = "returned"
    /\ intercept = NoneIntercept

----------------------------------------------------------------------------
(* Readers and YesOrNo *)

\* the last line was fed to a Reader
ReaderFed == Intercepted /\ before.kind = "Reader" /\ line # abort_command

\* the text the "done" callback of the last line saw
DoneText == events[CHOOSE j \in Pos({"done"}) : TRUE].text

\* C27: a multiline Reader fed the lines l1..ln and then the done marker
\* calls "done" exactly once, on the marker line only, with the text l1..ln
\* joined by newlines, empty lines kept wherever they are. The buffer of the
\* model holds a newline before each line, so the joined text is the buffer
\* without its first newline.
C27_MultilineJoins ==
    /\ (ReaderFed /\ before.persistent /\ line # done_marker) => Count({"done"}) = 0
    /\ (ReaderFed /\ before.persistent /\ line = done_marker
        /\ ~Failed({"after_line"})) =>
           /\ Count({"done"}) = 1
           /\ DoneText = (IF before.buffer = <<>> THEN <<>> ELSE Tail(before.buffer))

YesOrNoLines ==
    { <<>>, <<"y">>, <<"Y">>, <<"y", "e">>, <<"y", "e", "s">>, <<"Y", "E", "S">>,
      <<"y", "x">>, <<"n">>, <<"n", "o">>, <<"N", "O">>, <<" ", "y">>, <<"a", "y">>,
      <<"x">>, <<"1">> }

YesOrNoInit == Init /\ app = "prompts"
YesOrNoNext ==
    \/ \E i \in YesOrNos : Notify(i, <<>>)
    \/ \E ln \in YesOrNoLines :
           \E oracle \in [1..ServerCalls(ln) -> CallbackOutcomes] :
               ServerLine(ln, oracle)
YesOrNoSpec == YesOrNoInit /\ [][YesOrNoNext]_vars

\* the last line was fed to a YesOrNo
YesOrNoFed == Intercepted /\ before.kind = "YesOrNo" /\ line # abort_command

\* C30: every line fed to a YesOrNo calls exactly one of its two callbacks,
\* "yes" if the line starts with "y" or "Y" and "no" for any other line, the
\* empty one included; the question is not asked again and afterwards the
\* YesOrNo, persistent or not, is not the interceptor of the connection.
C30_YesOrNoDecides ==
    YesOrNoFed =>
        /\ Count({"yes", "no"}) = 1
        /\ Count({"yes"}) = 1 <=> (line # <<>> /\ Head(line) \in {"y", "Y"})
        /\ line \in {<<"y">>, <<"Y">>, <<"y", "e">>, <<"y", "e", "s">>,
                     <<"Y", "E", "S">>, <<"y", "x">>} => Count({"yes"}) = 1
        /\ line \in {<<>>, <<"n">>, <<"n", "o">>, <<"N", "O">>, <<" ", "y">>,
                     <<"a", "y">>, <<"x">>, <<"1">>} => Count({"no"}) = 1
        /\ events[CHOOSE j \in Pos({"yes", "no"}) : TRUE].text = line
        /\ \A j \in Pos({"explain"}) : events[j].n # before.id
        /\ before.question \notin SentTexts
        /\ before.prompt \notin SentTexts
        /\ intercept # before
        /\ intercept # NoneIntercept => (intercept = Child /\ Attached)

C30_Witness ==
    /\ YesOrNoFed
    /\ before.persistent
    /\ line = <<"Y", "E", "S">>
    /\ Count({"yes"}) = 1
    /\ Count({"no"}) = 0
    /\ outcome = "returned"
    /\ intercept = NoneIntercept

----------------------------------------------------------------------------
(* Abort refusals, Reader hooks and re-attachment *)

\* C37: the abort command with an interceptor whose no_abort is a callable
\* calls it as a callback, sends it nowhere as text, explains the interceptor
\* again and leaves it attached.
C37_CallableNoAbort ==
    (Intercepted /\ line = abort_command /\ before.no_abort = PyFunc) =>
        /\ outcome = "returned"
        /\ Count({"no_abort"}) = 1
        /\ \E j \in Pos({"explain"}) : events[j].n = before.id
        /\ intercept = before

\* C38: in a multiline Reader whose hooks are callables, a line that is
\* accumulated has after_line called once after the line is in the buffer
\* (the Caller it gets carries the text of the reader, the line included) and
\* before_line called once, and the done marker calls neither hook.
C38_HooksAroundLines ==
    /\ (ReaderFed /\ before.persistent /\ before.after_line = PyFunc
        /\ line # done_marker /\ outcome = "returned") =>
           /\ Count({"after_line"}) = 1
           /\ Count({"before_line"}) = 1
           /\ events[CHOOSE j \in Pos({"after_line"}) : TRUE].text =
                  get_buffer([before EXCEPT !.buffer = before.buffer \o <<"\n">> \o line])
    /\ (ReaderFed /\ before.persistent /\ line = done_marker) =>
           /\ Count({"after_line", "before_line"}) = 0
           /\ before.after_line.type = "str" => before.after_line.value \notin SentTexts

\* the last line was fed to an interceptor whose feed did not complete: a
\* Menu that called no item, a multiline Reader given another line than the
\* done marker, or a plain Intercept
FeedIncomplete ==
    /\ Intercepted
    /\ line # abort_command
    /\ outcome = "returned"
    /\ \/ before.kind = "Intercept"
       \/ before.kind = "Menu" /\ Count({"item"}) = 0
       \/ before.kind = "Reader" /\ before.persistent /\ line # done_marker

\* the interceptor as its feed leaves it: a Reader has taken the line
AfterFeed ==
    IF before.kind = "Reader"
    THEN [before EXCEPT !.buffer = before.buffer \o <<"\n">> \o line]
    ELSE before

----------------------------------------------------------------------------
(* Menus with labels: Menu.add_label appends to Menu.labels, so the list is *)
(* in the order the application added the labels, whatever their places.   *)

\* the labels an application may add: one for the beginning (after None,
\* written 0) and one after each of the first two items
LabelChoices ==
    { [text |-> <<"Things">>, after |-> 0],
      [text |-> <<"Middle">>, after |-> 1],
      [text |-> <<"More">>, after |-> 2] }

\* the lists add_label can build from them, each label added at most once
LabelLists ==
    {<<>>}
    \cup { <<a>> : a \in LabelChoices }
    \cup { ls \in [1..2 -> LabelChoices] : ls[1] # ls[2] }
    \cup { ls \in [1..3 -> LabelChoices] :
             ls[1] # ls[2] /\ ls[1] # ls[3] /\ ls[2] # ls[3] }

LabelMenus ==
    { [kind |-> "Menu", id |-> 2, persistent |-> p, no_abort |-> PyNone,
       aborted |-> AbortedMsg, title |-> <<"Select an item:">>,
       items |-> MenuItems, labels |-> ls,
       prompt |-> <<"Type a number or @abort to abort.">>,
       no_matches |-> PyNone, multiple_matches |-> PyNone] :
      p \in BOOLEAN, ls \in LabelLists }

LabelLines == { <<"2">>, <<"b">>, <<"a">>, <<"x">> }

LabelInit == Init /\ app = "prompts"
LabelNext ==
    \/ \E i \in LabelMenus : Notify(i, <<>>)
    \/ \E ln \in LabelLines :
           \E oracle \in [1..ServerCalls(ln) -> CallbackOutcomes] :
               ServerLine(ln, oracle)
LabelSpec == LabelInit /\ [][LabelNext]_vars

\* the texts sent to the connection during the last operation, in order
SentSeq == [i \in 1..Count({"sendLine"}) |-> events[Nth(Pos({"sendLine"}), i)].text]

\* where in SentSeq a text stands
SentAt(text) == {p \in 1..Len(SentSeq) : SentSeq[p] = text}

\* C36: when a Menu is explained every label is sent exactly once, whatever
\* the order the labels were added in: a label with after=None before the
\* first item, a label with after=item on the line after that item's; and
\* the labels do not change what a line selects.
C36_LabelsInPlace ==
    /\ (operation = "notify" /\ intercept # NoneIntercept /\ intercept.kind = "Menu"
        /\ intercept.items # <<>>) =>
           \A l \in 1..Len(intercept.labels) :
               LET label == intercept.labels[l]
               IN /\ Cardinality(SentAt(label.text)) = 1
                  /\ \A p \in SentAt(label.text) :
                         IF label.after = 0
                         THEN SentSeq[p + 1] = ItemStr(intercept.items[1])
                         ELSE SentSeq[p - 1] = ItemStr(intercept.items[label.after])
    /\ (MenuFed /\ before.items = MenuItems) =>
           /\ line = <<"2">> => Selected = <<2>>
           /\ line = <<"b">> => Selected = <<3>>
           /\ line \in {<<"a">>, <<"x">>} => Selected = <<>>

----------------------------------------------------------------------------
(* Server.notify with all it accepts: a text with arguments for it, an     *)
(* Intercept instance, or the class Intercept with arguments for it.       *)

PyClass(name) == [type |-> "class", value |-> name]
PyInstance(i) == [type |-> "instance", value |-> i]

\* text % args for a text whose only conversions are "%s": each takes the
\* next argument; too few or too many arguments raise TypeError
RECURSIVE Percent(_, _)
Percent(text, args) ==
    IF text = <<>>
    THEN [exc |-> IF args = <<>> THEN "" ELSE "TypeError", value |-> <<>>]
    ELSE IF Head(text) = "%s"
    THEN (IF args = <<>> THEN [exc |-> "TypeError", value |-> <<>>]
          ELSE LET r == Percent(Tail(text), Tail(args))
               IN [exc |-> r.exc, value |-> Head(args) \o r.value])
    ELSE LET r == Percent(Tail(text), args)
         IN [exc |-> r.exc, value |-> <<Head(text)>> \o r.value]

\* Server.format_text, positional arguments only
format_text(text, args) ==
    IF args # <<>> THEN Percent(text, args) ELSE [exc |-> "", value |-> text]

\* Intercept(*args): the attributes in the order attrs declares them,
\* persistent, no_abort, aborted, each with its default
Instantiate(args) ==
    [kind |-> "Intercept", id |-> 1,
     persistent |-> IF Len(args) >= 1 THEN args[1] ELSE FALSE,
     no_abort |-> IF Len(args) >= 2 THEN args[2] ELSE PyNone,
     aborted |-> IF Len(args) >= 3 THEN args[3] ELSE AbortedMsg]

\* a notify that only explains the interceptor
ServerNotifyNoAttach(st, text, args, oracle) ==
    IF text.type = "class" THEN explain(st, Instantiate(args), oracle)
    ELSE IF text.type = "instance" THEN explain(st, text.value, oracle)
    ELSE LET f == format_text(text.value, args)
         IN IF f.exc # "" THEN Raise(st, f.exc) ELSE NotifyText(st, PyStr(f.value))

\* Server.notify(connection, text, *args)
ServerNotify(st, text, args, oracle) ==
    IF text.type = "class" THEN NotifyIntercept(st, Instantiate(args), oracle)
    ELSE IF text.type = "instance" THEN NotifyIntercept(st, text.value, oracle)
    ELSE LET f == format_text(text.value, args)
         IN IF f.exc # "" THEN Raise(st, f.exc) ELSE NotifyText(st, PyStr(f.value))

\* what the application hands to notify
NotifyTexts ==
    { PyStr(<<"Hi">>), PyStr(<<"Hi ", "%s", "!">>), PyStr(<<"%s", " and ", "%s">>) }

NotifyArguments(text) ==
    CASE text.type = "class" ->
             { <<>>, <<TRUE>>, <<FALSE, PyStr(NoAbortMsg)>>, <<TRUE, PyNone, <<"Bye.">>>> }
      [] text.type = "instance" -> { <<>> }
      [] OTHER ->
             { args \in { <<>>, << <<"Bob">> >>, << <<"1">>, <<"2">> >> } :
                 format_text(text.value, args).exc = "" }

NotifyThings ==
    NotifyTexts \cup {PyClass("Intercept")} \cup {PyInstance(i) : i \in Intercepts}

\* the application calls connection.notify(text, *args)
NotifyCall(text, args, oracle) ==
    /\ app = "prompts"
    /\ operation' = "notify"
    /\ line' = <<>>
    /\ allow_huh' = TRUE
    /\ before' = intercept
    /\ given' = [text |-> text, args |-> args]
    /\ LET st == ServerNotify(NewRun(intercept), text, args, oracle)
       IN /\ intercept' = st.intercept
          /\ events' = st.events
          /\ outcome' = IF st.exc = "" THEN "returned" ELSE st.exc
    /\ UNCHANGED <<app, serverCommands, commands, registered, connections, sessions, menu>>

NotifyInit == Init /\ app = "prompts"
NotifyNext ==
    \E text \in NotifyThings :
        \E args \in NotifyArguments(text) :
            \E oracle \in [1..(IF text.type = "instance" THEN ExplainCalls(text.value)
                                                         ELSE 0) -> CallbackOutcomes] :
                NotifyCall(text, args, oracle)
NotifySpec == NotifyInit /\ [][NotifyNext]_vars

\* the interceptor the last call of notify was given or made
GivenIntercept ==
    IF given.text.type = "class" THEN Instantiate(given.args) ELSE given.text.value

\* C31: notify with an Intercept instance, or with the class and the
\* arguments to make one, first makes that interceptor the interceptor of the
\* connection and then calls its explain, once, and sends no line of its own
\* (what is sent is what explain sends); notify with a text sends exactly one
\* line, the text with its arguments filled in, and leaves the interceptor of
\* the connection as it was.
C31_NotifyAttachesOrSends ==
    /\ (operation = "notify" /\ given.text.type \in {"class", "instance"}) =>
           /\ events[1].op = "explain"
           /\ events[1].n = GivenIntercept.id
           /\ Cardinality({j \in Pos({"explain"}) : events[j].n = GivenIntercept.id}) = 1
           /\ GivenIntercept.kind = "Intercept" => Len(events) = 1
           /\ ~Attached => intercept = GivenIntercept
           /\ given.text.type = "class" =>
                  /\ intercept.kind = "Intercept"
                  /\ intercept.persistent = (given.args # <<>> /\ given.args[1])
                  /\ given.args = <<FALSE, PyStr(NoAbortMsg)>> =>
                         intercept.no_abort = PyStr(NoAbortMsg)
                  /\ Len(given.args) < 3 => intercept.aborted = AbortedMsg
    /\ (operation = "notify" /\ given.text.type = "str") =>
           /\ Len(events) = 1
           /\ events[1].op = "sendLine"
           /\ intercept = before
           /\ outcome = "returned"
           /\ given.args = <<>> => events[1].text = given.text.value
           /\ (given.text.value = <<"Hi ", "%s", "!">> /\ given.args # <<>>) =>
                  events[1].text = <<"Hi ", "Bob", "!">>
           /\ (given.text.value = <<"%s", " and ", "%s">> /\ given.args # <<>>) =>
                  events[1].text = <<"1", " and ", "2">>

C31_Witness ==
    /\ operation = "notify"
    /\ given.text = PyClass("Intercept")
    /\ given.args = <<TRUE>>
    /\ before # NoneIntercept
    /\ before.kind = "Menu"
    /\ intercept.kind = "Intercept"
    /\ intercept.persistent
    /\ events = <<[op |-> "explain", n |-> 1, text |-> <<>>, res |-> "", exception |-> FALSE]>>

----------------------------------------------------------------------------
(* Several connections: Protocol objects are made and lost, the            *)
(* application notifies one of them or broadcasts to all, and assigns      *)
(* parsers to them.                                                        *)

\* what such an application does: it talks to its connections, or it
\* switches their parsers
NetApplications == {"broadcast", "switch"}

\* the protocols, numbered in the order they are made
Conns == 1..MaxConns

\* an Intercept() with its defaults; obj tells the objects apart
NetInstance(obj) ==
    [kind |-> "Intercept", id |-> 1, persistent |-> FALSE, no_abort |-> PyNone,
     aborted |-> AbortedMsg, obj |-> obj]

\* the instance the application keeps and passes around, and the instance
\* notify makes of the class for connection c
KeptInstance == NetInstance(0)
Made(c) == NetInstance(c)

\* the values of Protocol._parser: None, two instances of Parser (whose
\* on_attach and on_detach take the connection only), an instance of a
\* subclass whose hooks take the two arguments the setter passes, and an
\* Intercept (which has no such hooks)
NoParser == [kind |-> "None", obj |-> 0, hook_args |-> 0]
ParserPool ==
    { [kind |-> "Parser", obj |-> 1, hook_args |-> 1],
      [kind |-> "Parser", obj |-> 2, hook_args |-> 1],
      [kind |-> "Subclass", obj |-> 3, hook_args |-> 2],
      [kind |-> "Intercept", obj |-> 4, hook_args |-> 0] }

\* the state a call works on
NetRun == [connections |-> connections, sessions |-> sessions, events |-> <<>>, exc |-> ""]

NetLog(s, op, n, text, res) ==
    [s EXCEPT !.events = Append(@, [op |-> op, n |-> n, text |-> text,
                                     res |-> res, exception |-> FALSE])]

\* parser.on_attach(connection, other) or parser.on_detach(connection, other)
CallHook(s, parser, name, other) ==
    IF parser.hook_args = 0 THEN [s EXCEPT !.exc = "AttributeError"]
    ELSE IF parser.hook_args = 1 THEN [s EXCEPT !.exc = "TypeError"]
    ELSE NetLog(s, name, parser.obj, <<>>, other.kind)

\* Protocol.parser, the setter
SetParser(s, c, value) ==
    LET old == s.sessions[c].parser
        s1 == IF old # NoParser THEN CallHook(s, old, "on_detach", value) ELSE s
        s2 == [s1 EXCEPT !.sessions[c].parser = value]
    IN IF s1.exc # "" THEN s1
       ELSE IF value # NoParser THEN CallHook(s2, value, "on_attach", old) ELSE s2

\* list.remove(x)
Remove(list, x) == SelectSeq(list, LAMBDA y : y # x)

InList(list, x) == \E p \in 1..Len(list) : list[p] = x

\* Protocol.connectionLost
connectionLost(s, c) ==
    LET s1 == IF InList(s.connections, c)
              THEN [s EXCEPT !.connections = Remove(@, c)] ELSE s
    IN NetLog(s1, "on_disconnect", c, <<>>,
              IF InList(s1.connections, c) THEN "listed" ELSE "removed")

\* Server.notify(connection, text) with the write to the transport doing
\* what write says: "ok", "fail" (sendLine raises) or "lost" (the transport
\* finds the connection gone and calls connectionLost)
NetNotify(s, c, text, write) ==
    IF text.type = "class"
    THEN NetLog([s EXCEPT !.sessions[c].intercept = Made(c)], "explain", c, <<>>, "")
    ELSE IF text.type = "instance"
    THEN NetLog([s EXCEPT !.sessions[c].intercept = text.value], "explain", c, <<>>, "")
    ELSE CASE write = "ok" -> NetLog(s, "sendLine", c, text.value, "")
           [] write = "fail" -> [NetLog(s, "sendLine", c, text.value, "fail")
                                   EXCEPT !.exc = "Exception"]
           [] OTHER -> connectionLost(s, c)

\* the loop of Server.broadcast: for con in self.connections, over the list
\* itself, so that the k-th step takes what is at place k by then
RECURSIVE BroadcastLoop(_, _, _, _)
BroadcastLoop(s, text, writes, k) ==
    IF s.exc # "" \/ k > Len(s.connections) THEN s
    ELSE BroadcastLoop(NetNotify(s, s.connections[k], text, writes[s.connections[k]]),
                       text, writes, k + 1)

\* Server.broadcast(text): without arguments format_text returns the text
broadcast(s, text, writes) ==
    BroadcastLoop(s, IF text.type = "str" THEN PyStr(format_text(text.value, <<>>).value)
                                          ELSE text,
                  writes, 1)

\* what the application notifies and broadcasts
NetThings == { PyStr(<<"Hello">>), PyClass("Intercept"), PyInstance(KeptInstance) }

\* what the writes of one broadcast do: at most one of them goes wrong
Writes(text) ==
    { w \in [Conns -> {"ok", "fail", "lost"}] :
        /\ Cardinality({c \in Conns : w[c] # "ok"}) <= 1
        /\ text.type # "str" => \A c \in Conns : w[c] = "ok" }

\* the record of the last operation on the connections
NetObserve(op, g, s) ==
    /\ operation' = op
    /\ given' = g
    /\ connections' = s.connections
    /\ sessions' = s.sessions
    /\ events' = s.events
    /\ outcome' = IF s.exc = "" THEN "returned" ELSE s.exc
    /\ UNCHANGED <<app, intercept, serverCommands, commands, registered, line, menu,
                   before, allow_huh>>

\* the factory makes protocol c with parser p (__attrs_post_init__ attaches
\* the parser) and the transport calls connectionMade
Connect(c, p) ==
    /\ c = Cardinality(DOMAIN sessions) + 1
    /\ c \in Conns
    /\ app = "broadcast" => p = NoParser
    /\ LET s0 == IF p # NoParser THEN CallHook(NetRun, p, "on_attach", NoParser)
                 ELSE NetRun
           s1 == [s0 EXCEPT !.sessions =
                      [x \in DOMAIN sessions \cup {c} |->
                          IF x = c THEN [intercept |-> NoneIntercept, parser |-> p]
                          ELSE sessions[x]],
                    !.connections = Append(@, c)]
       IN NetObserve("connect", [text |-> PyNone, args |-> <<>>, connection |-> c,
                                 value |-> p],
                     IF s0.exc # "" THEN s0 ELSE NetLog(s1, "on_connect", c, <<>>, ""))

\* the transport reports that connection c is gone
Lost(c) ==
    /\ InList(connections, c)
    /\ NetObserve("connectionLost", [text |-> PyNone, args |-> <<>>, connection |-> c],
                  connectionLost(NetRun, c))

\* the application notifies connection c
NotifyOne(c, text) ==
    /\ app = "broadcast"
    /\ InList(connections, c)
    /\ NetObserve("notify", [text |-> text, args |-> <<>>, connection |-> c],
                  NetNotify(NetRun, c, text, "ok"))

\* the application broadcasts
Broadcast(text, writes) ==
    /\ app = "broadcast"
    /\ connections # <<>>
    /\ NetObserve("broadcast", [text |-> text, args |-> <<>>,
                                connections |-> connections, writes |-> writes],
                  broadcast(NetRun, text, writes))

\* the application assigns connection.parser = value
Switch(c, value) ==
    /\ app = "switch"
    /\ c \in DOMAIN sessions
    /\ NetObserve("parser", [text |-> PyNone, args |-> <<>>, connection |-> c,
                             value |-> value, old |-> sessions[c].parser],
                  SetParser(NetRun, c, value))

NetInit ==
    /\ app \in NetApplications
    /\ intercept = NoneIntercept
    /\ serverCommands = <<>>
    /\ commands = [n \in {} |-> <<>>]
    /\ registered = 0
    /\ line = <<>>
    /\ before = NoneIntercept
    /\ operation = "init"
    /\ allow_huh = TRUE
    /\ events = <<>>
    /\ outcome = "none"
    /\ given = NoArguments
    /\ connections = <<>>
    /\ sessions = [c \in {} |-> NoneIntercept]
    /\ menu = NoneIntercept

NetNext ==
    \/ \E c \in Conns, p \in ParserPool \cup {NoParser} : Connect(c, p)
    \/ \E c \in Conns : Lost(c)
    \/ \E c \in Conns, text \in NetThings : NotifyOne(c, text)
    \/ \E text \in NetThings : \E writes \in Writes(text) : Broadcast(text, writes)
    \/ \E c \in Conns, value \in ParserPool \cup {NoParser} : Switch(c, value)

NetSpec == NetInit /\ [][NetNext]_vars

\* the events of a hook call that went through
HookEvent(name, parser, other) ==
    [op |-> name, n |-> parser.obj, text |-> <<>>, res |-> other.kind, exception |-> FALSE]

\* C32: a connection has one parser at a time, and an assignment of a new one
\* calls on_detach of the old one and then on_attach of the new one, each
\* exactly once, and leaves the new one as the parser of the connection.
C32_DetachThenAttach ==
    operation = "parser" =>
        /\ outcome = "returned"
        /\ sessions[given.connection].parser = given.value
        /\ events =
               (IF given.old # NoParser
                THEN <<HookEvent("on_detach", given.old, given.value)>> ELSE <<>>)
               \o (IF given.value # NoParser
                   THEN <<HookEvent("on_attach", given.value, given.old)>> ELSE <<>>)

\* the writes of the last operation that reached connection c
Delivered(c) == {j \in Pos({"sendLine"}) : events[j].n = c /\ events[j].res = ""}

\* C33: broadcast sends the text once to every connection that was in the
\* list when it was called and whose write goes through: a write that
\* fails, or a connection that is lost during the broadcast, does not keep
\* the text from the others.
C33_BroadcastReachesAll ==
    (operation = "broadcast" /\ given.text.type = "str") =>
        \A p \in 1..Len(given.connections) :
            given.writes[given.connections[p]] = "ok" =>
                Cardinality(Delivered(given.connections[p])) = 1

\* C34: no Intercept instance is the interceptor of two connected
\* protocols at the same time, whatever instances notify and broadcast are
\* given.
C34_InstanceNotShared ==
    \A p, q \in 1..Len(connections) :
        (/\ p # q
         /\ sessions[connections[p]].intercept # NoneIntercept
         /\ sessions[connections[q]].intercept # NoneIntercept) =>
            sessions[connections[p]].intercept.obj # sessions[connections[q]].intercept.obj

\* C35: when a connection is lost it is out of Server.connections by the
\* time on_disconnect runs, its interceptor is released (the protocol has
\* none afterwards), and no done, yes or no callback is called.
C35_LostReleases ==
    operation = "connectionLost" =>
        /\ events = <<[op |-> "on_disconnect", n |-> given.connection, text |-> <<>>,
                       res |-> "removed", exception |-> FALSE]>>
        /\ ~InList(connections, given.connection)
        /\ Count({"done", "yes", "no"}) = 0
        /\ sessions[given.connection].intercept = NoneIntercept

----------------------------------------------------------------------------
(* Numbering the items of a Menu: items given to the constructor and items *)
(* added with the decorator Menu.item.                                     *)

\* MenuItem(text, func): index is not an argument and starts as None (0);
\* obj tells one object from another
NewItem == [text |-> <<>>, func |-> "", index |-> 0, obj |-> 0]
MenuItem(text, func, obj) == [NewItem EXCEPT !.text = text, !.func = func, !.obj = obj]

\* an equality that leaves the index out
ItemEqTextFunc(a, b) == a.text = b.text /\ a.func = b.func

\* a == b for two MenuItem objects: attrs compares text, func and index
ItemEq(a, b) == a.text = b.text /\ a.func = b.func /\ a.index = b.index

\* list.index(x) + 1: the first place holding x itself or an object equal to it
ListIndex(items, x) ==
    CHOOSE p \in 1..Len(items) :
        /\ items[p].obj = x.obj \/ ItemEq(items[p], x)
        /\ \A q \in 1..(p - 1) : ~(items[q].obj = x.obj \/ ItemEq(items[q], x))

\* Menu.__attrs_post_init__: for item in self.items, from the k-th on
RECURSIVE PostInitLoop(_, _)
PostInitLoop(items, k) ==
    IF k > Len(items) THEN items
    ELSE PostInitLoop([items EXCEPT ![k].index = ListIndex(items, items[k])], k + 1)

MenuPostInit(items) == PostInitLoop(items, 1)

ItemTexts == { <<"x">>, <<"y">> }
ItemFuncs == { "print", "id" }
ItemChoices == { [text |-> t, func |-> f] : t \in ItemTexts, f \in ItemFuncs } \ { [text |-> <<"y">>, func |-> "id"] }

\* the lists of new items a Menu can be made with
ItemLists == UNION { [1..n -> ItemChoices] : n \in 0..MaxItems }

ItemLines == { <<"1">>, <<"2">>, <<"3">>, <<"4">>, <<"x">> }

\* what a step that builds the menu leaves of the last operation
Built(op, m) ==
    /\ menu' = m
    /\ operation' = op
    /\ line' = <<>>
    /\ allow_huh' = TRUE
    /\ before' = intercept
    /\ events' = <<>>
    /\ outcome' = "returned"
    /\ UNCHANGED <<app, intercept, serverCommands, commands, registered, given,
                   connections, sessions>>

\* Menu('Test Menu') before its items are numbered
EmptyMenu ==
    [kind |-> "Menu", id |-> 2, persistent |-> FALSE, no_abort |-> PyNone,
     aborted |-> AbortedMsg, title |-> <<"Test Menu">>, items |-> <<>>,
     labels |-> <<>>, prompt |-> <<"Type a number or @abort to abort.">>,
     no_matches |-> PyNone, multiple_matches |-> PyNone]

\* m = Menu('Test Menu', items=[MenuItem(...), ...]), while the connection
\* has no interceptor
NewMenu(list) ==
    /\ intercept = NoneIntercept
    /\ Built("Menu",
             [EmptyMenu EXCEPT !.items =
                 MenuPostInit([k \in 1..Len(list) |->
                                  MenuItem(list[k].text, list[k].func, k)])])

\* m.item(name)(func), while the menu is not on the connection
MenuAddItem(name, func) ==
    /\ menu # NoneIntercept
    /\ intercept = NoneIntercept
    /\ Len(menu.items) < MaxItems
    /\ Built("item",
             [menu EXCEPT !.items =
                 MenuPostInit(Append(menu.items,
                                     MenuItem(name, func, Len(menu.items) + 1)))])

ItemInit == Init /\ app = "prompts"
ItemNext ==
    \/ \E list \in ItemLists : NewMenu(list)
    \/ \E c \in ItemChoices : MenuAddItem(c.text, c.func)
    \/ menu # NoneIntercept /\ Notify(menu, <<>>)
    \/ \E ln \in ItemLines :
           \E oracle \in [1..ServerCalls(ln) -> {"ok", "fail"}] :
               ServerLine(ln, oracle)
ItemSpec == ItemInit /\ [][ItemNext]_vars

\* C39: whatever items a Menu was made with and whatever items the
\* decorator added, items with equal text and function included, the item at
\* place k (counted from 0) has index k + 1: that is the number printed for
\* it when the menu is explained, and typing it selects that item.
C39_ItemIndices ==
    /\ menu # NoneIntercept =>
           \A k \in 1..Len(menu.items) : menu.items[k].index = k
    /\ (operation = "notify" /\ intercept # NoneIntercept) =>
           \A k \in 1..Len(intercept.items) :
               SentSeq[k + 1] = <<"[">> \o StrOfNat(k) \o <<"]", " ">> \o intercept.items[k].text
    /\ (MenuFed /\ IsInt(line) /\ IntOf(line) \in 1..Len(before.items)) =>
           /\ Selected = <<IntOf(line)>>
           /\ before.items[IntOf(line)].index = IntOf(line)

\* the decorator has added an item equal in text and function to the two
\* items before it
C39_Witness ==
    /\ operation = "item"
    /\ Len(menu.items) = 3
    /\ \A k \in 1..3 : ItemEqTextFunc(menu.items[k], menu.items[1])

====
